---- MODULE Spec2Model ----
(***************************************************************************)
(* Model of telegramassistant.py: a Telegram bot that forwards chat        *)
(* messages to the Google Assistant over a bidirectional streaming RPC.    *)
(*                                                                         *)
(*   SampleTextAssistant          the conversation session (`assistant`)   *)
(*   SampleTextAssistant.assist   one turn: request generator + the loop   *)
(*                                that drains the response stream          *)
(*   assist(bot, update)          the message handler (router)             *)
(*                                                                         *)
(* A handler invocation is a process.  Its steps are the points where the  *)
(* code blocks on the network: the call of Assist (Deliver), the moment    *)
(* gRPC pulls the single request out of the generator (SendRequest), each  *)
(* response message of the stream (Recv), the end of the stream (Complete),*)
(* an exception raised by the stream iterator (Fail), and then one step    *)
(* per call of the chat platform: the answer to reply_text (ReplyReturns), *)
(* to each get_member of the loop (GetMemberAnswers), to chat.leave        *)
(* (LeaveReturns), and a TelegramError raised by reply_text or chat.leave  *)
(* (TelegramRaises).  Return ends the invocation.                          *)
(*                                                                         *)
(* The file starts no thread and takes no lock: when assist(bot, update)   *)
(* runs is decided by the dispatcher of the chat library, which is not     *)
(* part of the file.  Spec, SpecTurns and SpecTurnsFair follow one         *)
(* invocation at a time.  SpecConcurrent takes the scheduling of the       *)
(* design document (section 5): a worker per update, updates of different  *)
(* chats not serialized; the steps of the invocations are those of the     *)
(* file and they share the one global session.                             *)
(*                                                                         *)
(* What lies outside the file is modelled at its interface:                *)
(*   - the service answers a request only after it has received it; the    *)
(*     stream iterator may raise at any time after Assist was called;      *)
(*   - reply_text and chat.leave are recorded when the handler makes the   *)
(*     call, with their arguments; either may raise TelegramError;         *)
(*   - get_member raises TelegramError exactly for users not in the chat.  *)
(*                                                                         *)
(* The specifications share the steps: Spec delivers every message;        *)
(* SpecTurns follows long response streams; SpecConcurrent follows two     *)
(* invocations, for updates of different chats, that overlap.              *)
(* SpecTurnsFair is SpecTurns with the deadline timer of the call running. *)
(***************************************************************************)
EXTENDS Integers, Sequences, FiniteSets, TLC

----------------------------------------------------------------------------
(* Bounds of the model *)

\* longest message text, in characters
MaxTextLen == 4

\* most response messages the service streams in one turn, in the runs that
\* follow the session through long streams (SpecTurns)
MaxStream == 3

\* most response messages per turn in the runs that vary the chat messages
\* (Spec)
MaxShortStream == 1

\* most response messages per turn in the runs with two overlapping
\* invocations (SpecConcurrent)
MaxPairStream == 2

----------------------------------------------------------------------------
(* Values *)

\* Python's None (conversation_state before the first token, display_text
\* before the first text)
None == "None"

\* characters of message texts
Chars == {"@", "b", " "}

\* bot.username
BotUsername == <<"b">>

\* non-empty conversation-state tokens the service may issue (bytes)
Tokens == {"A", "B"}

\* the empty byte string / the empty string of an unset proto3 field
Empty == ""

\* non-empty supplemental display texts the service may return
DisplayTexts == {"x", "y"}

\* message.chat.type values; everything but 'private' takes the group branch
ChatTypes == {"private", "group", "supergroup"}

\* Telegram user ids appearing in the model
Users == {1, 2, 3}

\* group chat ids appearing in the model
GroupChats == {-10, -11}

\* the workers an invocation of assist(bot, update) may run on when updates
\* of different chats are handled at the same time
Handlers == {"w1", "w2"}

\* the worker of the runs with one invocation at a time
SeqHandlers == {"w1"}

\* module constants read from the environment
ALLOWED_CHAT_IDS == <<-10>>

AUTHORIZED_USER_IDS == <<1, 2>>

DEVICE_MODEL_ID == "model"

DEVICE_ID == "device"

DEFAULT_GRPC_DEADLINE == 185

\* --lang default
DEFAULT_LANG == "en-US"

----------------------------------------------------------------------------
(* Sequences and strings *)

\* all sequences over S of length at most n
RECURSIVE SeqsUpTo(_, _)
SeqsUpTo(S, n) ==
    IF n = 0 THEN {<<>>}
    ELSE LET shorter == SeqsUpTo(S, n - 1)
         IN  shorter \cup {Append(s, c) : s \in {t \in shorter : Len(t) = n - 1}, c \in S}

\* the elements of a list (Python `x in list`)
Range(s) == {s[i] : i \in 1..Len(s)}

\* str.startswith
StartsWith(s, p) ==
    /\ Len(s) >= Len(p)
    /\ \A i \in 1..Len(p) : s[i] = p[i]

\* index of the first space of s, 0 when there is none
FirstSpace(s) ==
    IF \E i \in 1..Len(s) : s[i] = " "
    THEN CHOOSE i \in 1..Len(s) : s[i] = " " /\ \A j \in 1..(i - 1) : s[j] # " "
    ELSE 0

\* str.split(' ', 1): at most one split, at the first space
SplitOnce(s) ==
    LET k == FirstSpace(s)
    IN  IF k = 0 THEN <<s>>
        ELSE <<SubSeq(s, 1, k - 1), SubSeq(s, k + 1, Len(s))>>

\* '@%s' % bot.username
Mention == <<"@">> \o BotUsername

----------------------------------------------------------------------------
(* Inputs *)

\* message texts: Filters.text delivers text messages only
Texts == SeqsUpTo(Chars, MaxTextLen)

\* update.message as the handler reads it; a private chat's id is the id
\* of the user
Messages ==
    {m \in [chat_type : ChatTypes, chat_id : Users \cup GroupChats,
            from_user : Users, text : Texts] :
        IF m.chat_type = "private" THEN m.chat_id = m.from_user
        ELSE m.chat_id \in GroupChats}

\* one message per way the handler can meet the session: a private query of
\* an authorized user, a private message of a stranger, a stranger's mention
\* in a group that is not allowed
SampleMessages ==
    {m \in Messages :
        \/ m.chat_type = "private" /\ m.text = <<"b">> /\ m.from_user \in {1, 3}
        \/ /\ m.chat_type = "group" /\ m.text = <<"@", "b", " ", "b">>
           /\ m.chat_id = -11 /\ m.from_user = 3}

\* the updates worker h takes when two invocations overlap: w1 those of the
\* private chats, w2 those of the group chats, so that invocations running
\* at the same time are for different chats
ChatInbox(h) ==
    {m \in SampleMessages : (h = "w1") <=> (m.chat_type = "private")}

\* a response message of the stream: dialog_state_out.conversation_state and
\* dialog_state_out.supplemental_display_text (Empty when unset)
Responses ==
    [conversation_state : Tokens \cup {Empty},
     supplemental_display_text : DisplayTexts \cup {Empty}]

\* the response messages that carry no display text: the ones that matter
\* to the stored token
TokenResponses == {r \in Responses : r.supplemental_display_text = Empty}

\* how the stream iterator can raise
Failures == {"DeadlineExceeded", "RpcError"}

----------------------------------------------------------------------------
(* SampleTextAssistant *)

\* SampleTextAssistant.__init__ as main() calls it
NewAssistant ==
    [language_code      |-> DEFAULT_LANG,
     device_model_id    |-> DEVICE_MODEL_ID,
     device_id          |-> DEVICE_ID,
     conversation_state |-> None,
     deadline           |-> DEFAULT_GRPC_DEADLINE]

\* Python truthiness of conversation_state (None and b'' are falsy)
Truthy(v) == v # None /\ v # Empty

\* a request generator that never copies the session's token
RequestToken_AlwaysEmpty(cs) == Empty

\* the conversation_state of DialogStateIn: b'' unless the session's is truthy
RequestToken(cs) == IF Truthy(cs) THEN cs ELSE Empty

\* iter_assist_requests: the one AssistRequest of a turn
AssistRequest(a, text_query) ==
    [language_code      |-> a.language_code,
     conversation_state |-> RequestToken(a.conversation_state),
     device_id          |-> a.device_id,
     device_model_id    |-> a.device_model_id,
     text_query         |-> text_query]

\* a generator that yields its request again
IterAssistRequests_Resend(a, text_query) ==
    <<AssistRequest(a, text_query), AssistRequest(a, text_query)>>

\* the requests iter_assist_requests yields, in order: the generator has a
\* single yield
IterAssistRequests(a, text_query) == <<AssistRequest(a, text_query)>>

\* a call of Assist that passes no timeout
CallTimeout_None(a) == 0

\* the timeout self.assistant.Assist is called with: self.deadline
CallTimeout(a) == a.deadline

\* how the stream iterator can raise under a call timeout (0: no timeout,
\* the deadline never expires)
StreamErrors(timeout) ==
    IF timeout > 0 THEN Failures ELSE Failures \ {"DeadlineExceeded"}

\* a loop that forgets the token when a message carries none
UpdateState_ClearOnEmpty(cs, resp) ==
    IF Truthy(resp.conversation_state) THEN resp.conversation_state ELSE None

\* a loop that stores the token field of every message, empty ones too
UpdateState_Unguarded(cs, resp) == resp.conversation_state

\* self.conversation_state after one response message
UpdateState(cs, resp) ==
    IF Truthy(resp.conversation_state) THEN resp.conversation_state ELSE cs

\* a loop that assigns the token to the wrong attribute as well
StoreState_WrongField(a, resp) ==
    [a EXCEPT !.conversation_state = UpdateState(a.conversation_state, resp),
              !.device_id = resp.conversation_state]

\* the session after one response message: only conversation_state is
\* assigned
StoreState(a, resp) ==
    [a EXCEPT !.conversation_state = UpdateState(a.conversation_state, resp)]

\* a loop that takes the text field of every message, empty ones too
UpdateText_Unguarded(dt, resp) == resp.supplemental_display_text

\* display_text after one response message
UpdateText(dt, resp) ==
    IF Truthy(resp.supplemental_display_text)
    THEN resp.supplemental_display_text ELSE dt

\* no value returned yet
Pending == "pending"

\* the call ended by an exception
Raised == "raised"

\* an assist that catches the error and returns the text read so far
ResultOnRaise_Partial(dt) == dt

\* what assistant.assist hands its caller when the stream iterator raises
\* with display_text dt already set: nothing, the exception leaves the
\* function
ResultOnRaise(dt) == Raised

----------------------------------------------------------------------------
(* assist(bot, update): the router's decisions *)

\* a private-chat test that looks the chat up in the allowed chats
SenderUnauthorized_ByChat(m) == m.chat_id \notin Range(ALLOWED_CHAT_IDS)

\* message.from_user.id not in AUTHORIZED_USER_IDS
SenderUnauthorized(m) == m.from_user \notin Range(AUTHORIZED_USER_IDS)

\* a group-branch test that requires the sender to be authorized in a chat
\* that is not allowed, and so lets strangers through
GroupUnauthorized_Inverted(m) ==
    /\ m.chat_id \notin Range(ALLOWED_CHAT_IDS)
    /\ m.from_user \in Range(AUTHORIZED_USER_IDS)

\* the group-branch test made after the assistant answered
GroupUnauthorized(m) ==
    /\ m.chat_id \notin Range(ALLOWED_CHAT_IDS)
    /\ m.from_user \notin Range(AUTHORIZED_USER_IDS)

\* message.text.startswith('@%s' % bot.username)
IsMention(m) == StartsWith(m.text, Mention)

\* the queries the handler passes to assistant.assist before it blocks:
\* <<q>> when it calls it, <<>> when it does not
QueryOf(m) ==
    IF m.chat_type = "private"
    THEN IF SenderUnauthorized(m) THEN <<>> ELSE <<m.text>>
    ELSE IF IsMention(m)
         THEN LET message_tokens == SplitOnce(m.text)
              IN  IF Len(message_tokens) > 1 THEN <<message_tokens[2]>> ELSE <<>>
         ELSE <<>>

\* replies the handler sends without calling the assistant
ImmediateReplies(m) ==
    IF m.chat_type = "private" /\ SenderUnauthorized(m)
    THEN <<"Unauthorized">> ELSE <<>>

\* one pass of the get_member loop: should_leave_chat after get_member
\* answered for user_id, raising TelegramError (caught) when the user is not
\* in the chat
AfterGetMember(should_leave_chat, user_id, members) ==
    IF user_id \in members THEN FALSE ELSE should_leave_chat

\* whether the handler, once reply_text answered, goes on to the get_member
\* loop: only in the branch of the group test
ChecksMembers(m) == m.chat_type # "private" /\ GroupUnauthorized(m)

\* a handler that relays the text before it tests the chat and the sender
RepliesAfterAssist_RelayFirst(m, dt) ==
    IF m.chat_type = "private" THEN <<dt>>
    ELSE (IF dt # None THEN <<dt>> ELSE <<>>)
         \o (IF GroupUnauthorized(m) THEN <<"Unauthorized">> ELSE <<>>)

\* replies sent once assistant.assist returned display_text
RepliesAfterAssist(m, dt) ==
    IF m.chat_type = "private" THEN <<dt>>
    ELSE IF GroupUnauthorized(m) THEN <<"Unauthorized">>
         ELSE IF dt # None THEN <<dt>> ELSE <<>>

\* a handler that catches the error and answers with the fixed message
RepliesAfterRaise_Apology(m) == <<"Unauthorized">>

\* replies sent when assistant.assist raised: the call is not inside a try,
\* the rest of the handler is skipped
RepliesAfterRaise(m) == <<>>

\* the memberships a chat can have when m arrives, as far as the handler can
\* observe them: only the unauthorized group branch calls get_member
Memberships(m) ==
    IF m.chat_type # "private" /\ GroupUnauthorized(m)
    THEN SUBSET Range(AUTHORIZED_USER_IDS) ELSE {{}}

----------------------------------------------------------------------------
(* State *)

VARIABLES
    assistant,     \* the global SampleTextAssistant
    pc,            \* per handler: idle, open, streaming, replying, checking,
                   \*   leaving, done, failed, crashed
    msg,           \* per handler: update.message
    asks,          \* per handler: the queries passed to assistant.assist
    req,           \* per handler: the AssistRequest the generator yielded
    display_text,  \* per handler: the local display_text of the turn
    stream,        \* per handler: the response messages consumed so far
    pre,           \* per handler: conversation_state when assist was called
    outcome,       \* per handler: how assistant.assist ended
    replies,       \* per handler: the texts passed to reply_text
    left,          \* per handler: message.chat.leave() was called
    present,       \* per handler: authorized users who are in message.chat
    prevTurn,      \* the last turn that ended after sending its request
    sent,          \* per handler: the requests written to the stream
    result,        \* per handler: what assistant.assist handed the handler
    issued,        \* the non-empty tokens the service has delivered so far
    user_idx,      \* per handler: position of the get_member loop, 0 outside
    should_leave_chat,  \* per handler: the local flag of the get_member loop
    lastRecv       \* the handler whose loop processed the latest response

vars == <<assistant, pc, msg, asks, req, display_text, stream, pre, outcome,
          replies, left, present, prevTurn, sent, result, issued, user_idx,
          should_leave_chat, lastRecv>>

NoMsg == [chat_type |-> "none", chat_id |-> 0, from_user |-> 0, text |-> <<>>]

NoReq == [language_code |-> "", conversation_state |-> None, device_id |-> "",
          device_model_id |-> "", text_query |-> <<>>]

NoTurn == [sent |-> None, last |-> None]

\* the last non-empty token of a sequence of response messages, Empty if none
RECURSIVE LastToken(_)
LastToken(s) ==
    IF s = <<>> THEN Empty
    ELSE IF s[Len(s)].conversation_state # Empty
         THEN s[Len(s)].conversation_state
         ELSE LastToken(SubSeq(s, 1, Len(s) - 1))

\* the last non-empty display text of a sequence of response messages
RECURSIVE LastText(_)
LastText(s) ==
    IF s = <<>> THEN Empty
    ELSE IF s[Len(s)].supplemental_display_text # Empty
         THEN s[Len(s)].supplemental_display_text
         ELSE LastText(SubSeq(s, 1, Len(s) - 1))

InFlight(h) == pc[h] \in {"open", "streaming"}

Init ==
    /\ assistant = NewAssistant
    /\ pc = [h \in Handlers |-> "idle"]
    /\ msg = [h \in Handlers |-> NoMsg]
    /\ asks = [h \in Handlers |-> <<>>]
    /\ req = [h \in Handlers |-> NoReq]
    /\ display_text = [h \in Handlers |-> None]
    /\ stream = [h \in Handlers |-> <<>>]
    /\ pre = [h \in Handlers |-> None]
    /\ outcome = [h \in Handlers |-> "none"]
    /\ replies = [h \in Handlers |-> <<>>]
    /\ left = [h \in Handlers |-> FALSE]
    /\ present = [h \in Handlers |-> {}]
    /\ prevTurn = NoTurn
    /\ sent = [h \in Handlers |-> <<>>]
    /\ result = [h \in Handlers |-> Pending]
    /\ issued = {}
    /\ user_idx = [h \in Handlers |-> 0]
    /\ should_leave_chat = [h \in Handlers |-> FALSE]
    /\ lastRecv = None

----------------------------------------------------------------------------
(* Steps of a handler invocation *)

\* where the handler is after it made its calls so far: waiting for the
\* answer to reply_text when it made one, at its end when it made none
AfterReplies(rs) == IF rs = <<>> THEN "done" ELSE "replying"

\* assist(bot, update) is called on worker h for a message of inbox.  The
\* handler runs up to its call of self.assistant.Assist, to its call of
\* reply_text('Unauthorized') in a private chat, or to its end when it calls
\* neither.
Deliver(h, inbox) ==
    /\ pc[h] = "idle"
    /\ \E m \in inbox :
        /\ msg' = [msg EXCEPT ![h] = m]
        /\ asks' = [asks EXCEPT ![h] = QueryOf(m)]
        /\ replies' = [replies EXCEPT ![h] = ImmediateReplies(m)]
        /\ pc' = [pc EXCEPT ![h] = IF QueryOf(m) = <<>>
                                   THEN AfterReplies(ImmediateReplies(m))
                                   ELSE "open"]
        /\ \E members \in Memberships(m) : present' = [present EXCEPT ![h] = members]
    /\ pre' = [pre EXCEPT ![h] = assistant.conversation_state]
    /\ UNCHANGED <<assistant, req, display_text, stream, outcome, left, prevTurn,
                   sent, result, issued, user_idx, should_leave_chat,
                   lastRecv>>

\* gRPC pulls the request out of iter_assist_requests(): the generator body
\* runs now and reads self.conversation_state.
SendRequest(h) ==
    /\ pc[h] = "open"
    /\ LET requests == IterAssistRequests(assistant, asks[h][1])
       IN  /\ sent' = [sent EXCEPT ![h] = requests]
           /\ req' = [req EXCEPT ![h] = requests[1]]
    /\ pc' = [pc EXCEPT ![h] = "streaming"]
    /\ UNCHANGED <<assistant, msg, asks, display_text, stream, pre, outcome,
                   replies, left, present, prevTurn, result, issued, user_idx,
                   should_leave_chat,
                   lastRecv>>

\* One iteration of `for resp in self.assistant.Assist(...)`; the service
\* answers a request it has received, with at most maxlen messages, each
\* one of responses.
Recv(h, maxlen, responses) ==
    /\ pc[h] = "streaming"
    /\ Len(stream[h]) < maxlen
    /\ \E resp \in responses :
        /\ assistant' = StoreState(assistant, resp)
        /\ issued' = issued \cup ({resp.conversation_state} \ {Empty})
        /\ display_text' = [display_text EXCEPT ![h] =
                               UpdateText(display_text[h], resp)]
        /\ stream' = [stream EXCEPT ![h] = Append(stream[h], resp)]
    /\ lastRecv' = h
    /\ UNCHANGED <<pc, msg, asks, req, pre, outcome, replies, left, present,
                   prevTurn, sent, result, user_idx, should_leave_chat>>

\* The stream ends: assistant.assist returns display_text and the handler
\* runs up to its call of reply_text, or to its end when it makes none.
Complete(h) ==
    /\ pc[h] = "streaming"
    /\ outcome' = [outcome EXCEPT ![h] = "returned"]
    /\ result' = [result EXCEPT ![h] = display_text[h]]
    /\ LET rs == RepliesAfterAssist(msg[h], display_text[h])
       IN  /\ replies' = [replies EXCEPT ![h] = rs]
           /\ pc' = [pc EXCEPT ![h] = AfterReplies(rs)]
    /\ prevTurn' = [sent |-> req[h].conversation_state,
                    last |-> LastToken(stream[h])]
    /\ UNCHANGED <<assistant, msg, asks, req, display_text, stream, pre, present,
                   left, sent, issued, user_idx, should_leave_chat,
                   lastRecv>>

\* The stream iterator raises (deadline exceeded, transport or service
\* error): the exception leaves assistant.assist and the handler.
Fail(h) ==
    /\ InFlight(h)
    /\ pc' = [pc EXCEPT ![h] = "failed"]
    /\ \E kind \in StreamErrors(CallTimeout(assistant)) :
        outcome' = [outcome EXCEPT ![h] = kind]
    /\ result' = [result EXCEPT ![h] = ResultOnRaise(display_text[h])]
    /\ replies' = [replies EXCEPT ![h] = replies[h] \o RepliesAfterRaise(msg[h])]
    /\ prevTurn' = IF pc[h] = "streaming"
                   THEN [sent |-> req[h].conversation_state,
                         last |-> LastToken(stream[h])]
                   ELSE prevTurn
    /\ UNCHANGED <<assistant, msg, asks, req, display_text, stream, pre,
                   left, present, sent, issued, user_idx, should_leave_chat,
                   lastRecv>>

\* message.chat.leave() is called when the loop ended with the flag set;
\* the handler is at its end otherwise
AfterLoop(h, flag) ==
    /\ left' = [left EXCEPT ![h] = flag]
    /\ pc' = [pc EXCEPT ![h] = IF flag THEN "leaving" ELSE "done"]
    /\ user_idx' = [user_idx EXCEPT ![h] = 0]

\* reply_text returns.  After 'Unauthorized' in a group the handler sets
\* should_leave_chat and calls get_member for the first authorized user; in
\* every other branch it is at its end.
ReplyReturns(h) ==
    /\ pc[h] = "replying"
    /\ IF ChecksMembers(msg[h])
       THEN /\ should_leave_chat' = [should_leave_chat EXCEPT ![h] = TRUE]
            /\ IF Len(AUTHORIZED_USER_IDS) > 0
               THEN /\ user_idx' = [user_idx EXCEPT ![h] = 1]
                    /\ pc' = [pc EXCEPT ![h] = "checking"]
                    /\ UNCHANGED left
               ELSE AfterLoop(h, TRUE)
       ELSE /\ pc' = [pc EXCEPT ![h] = "done"]
            /\ UNCHANGED <<left, user_idx, should_leave_chat>>
    /\ UNCHANGED <<assistant, msg, asks, req, display_text, stream, pre, outcome,
                   replies, present, prevTurn, sent, result, issued,
                   lastRecv>>

\* get_member answers for AUTHORIZED_USER_IDS[user_idx]: it returns for a
\* member of the chat and raises TelegramError, which the loop catches, for
\* anyone else.  The loop goes on with the next user, or ends.
GetMemberAnswers(h) ==
    /\ pc[h] = "checking"
    /\ LET flag == AfterGetMember(should_leave_chat[h],
                                  AUTHORIZED_USER_IDS[user_idx[h]], present[h])
       IN  /\ should_leave_chat' = [should_leave_chat EXCEPT ![h] = flag]
           /\ IF user_idx[h] < Len(AUTHORIZED_USER_IDS)
              THEN /\ user_idx' = [user_idx EXCEPT ![h] = user_idx[h] + 1]
                   /\ UNCHANGED <<pc, left>>
              ELSE AfterLoop(h, flag)
    /\ UNCHANGED <<assistant, msg, asks, req, display_text, stream, pre, outcome,
                   replies, present, prevTurn, sent, result, issued,
                   lastRecv>>

\* message.chat.leave() returns: the handler is at its end.
LeaveReturns(h) ==
    /\ pc[h] = "leaving"
    /\ pc' = [pc EXCEPT ![h] = "done"]
    /\ UNCHANGED <<assistant, msg, asks, req, display_text, stream, pre, outcome,
                   replies, left, present, prevTurn, sent, result, issued,
                   user_idx, should_leave_chat,
                   lastRecv>>

\* reply_text or chat.leave raises TelegramError: neither call is inside a
\* try, the exception leaves the handler and the rest of it is skipped.
TelegramRaises(h) ==
    /\ pc[h] \in {"replying", "leaving"}
    /\ pc' = [pc EXCEPT ![h] = "crashed"]
    /\ UNCHANGED <<assistant, msg, asks, req, display_text, stream, pre, outcome,
                   replies, left, present, prevTurn, sent, result, issued,
                   user_idx, should_leave_chat,
                   lastRecv>>

\* assist(bot, update) is over (it returned, or the exception reached the
\* dispatcher): its locals are gone and the dispatcher takes the next update.
Return(h) ==
    /\ pc[h] \in {"done", "failed", "crashed"}
    /\ pc' = [pc EXCEPT ![h] = "idle"]
    /\ msg' = [msg EXCEPT ![h] = NoMsg]
    /\ asks' = [asks EXCEPT ![h] = <<>>]
    /\ req' = [req EXCEPT ![h] = NoReq]
    /\ display_text' = [display_text EXCEPT ![h] = None]
    /\ stream' = [stream EXCEPT ![h] = <<>>]
    /\ pre' = [pre EXCEPT ![h] = None]
    /\ outcome' = [outcome EXCEPT ![h] = "none"]
    /\ replies' = [replies EXCEPT ![h] = <<>>]
    /\ left' = [left EXCEPT ![h] = FALSE]
    /\ present' = [present EXCEPT ![h] = {}]
    /\ sent' = [sent EXCEPT ![h] = <<>>]
    /\ result' = [result EXCEPT ![h] = Pending]
    /\ user_idx' = [user_idx EXCEPT ![h] = 0]
    /\ should_leave_chat' = [should_leave_chat EXCEPT ![h] = FALSE]
    /\ UNCHANGED <<assistant, prevTurn, issued,
                   lastRecv>>

----------------------------------------------------------------------------
(* Specifications *)

\* Every message, one invocation at a time.
Next ==
    \E h \in SeqHandlers :
        \/ Deliver(h, Messages)
        \/ SendRequest(h)
        \/ Recv(h, MaxShortStream, Responses)
        \/ Complete(h)
        \/ Fail(h)
        \/ ReplyReturns(h)
        \/ GetMemberAnswers(h)
        \/ LeaveReturns(h)
        \/ TelegramRaises(h)
        \/ Return(h)

Spec == Init /\ [][Next]_vars

\* The sample messages with long response streams, one invocation at a time.
NextTurns ==
    \E h \in SeqHandlers :
        \/ Deliver(h, SampleMessages)
        \/ SendRequest(h)
        \/ Recv(h, MaxStream, Responses)
        \/ Complete(h)
        \/ Fail(h)
        \/ ReplyReturns(h)
        \/ GetMemberAnswers(h)
        \/ LeaveReturns(h)
        \/ TelegramRaises(h)
        \/ Return(h)

SpecTurns == Init /\ [][NextTurns]_vars

\* the deadline of the call running out: gRPC ends a call that is still
\* open when its timeout has passed
DeadlineExpires(h) == Fail(h) /\ outcome'[h] = "DeadlineExceeded"

\* SpecTurns with the deadline timer running: a deadline that can expire
\* does expire.  Nothing is assumed of the service.
SpecTurnsFair ==
    SpecTurns /\ \A h \in SeqHandlers : WF_vars(DeadlineExpires(h))

\* A worker per update: the invocations for updates of different chats
\* overlap freely on the one session.
NextConcurrent ==
    \E h \in Handlers :
        \/ Deliver(h, ChatInbox(h))
        \/ SendRequest(h)
        \/ Recv(h, MaxPairStream, TokenResponses)
        \/ Complete(h)
        \/ Fail(h)
        \/ ReplyReturns(h)
        \/ GetMemberAnswers(h)
        \/ LeaveReturns(h)
        \/ TelegramRaises(h)
        \/ Return(h)

SpecConcurrent == Init /\ [][NextConcurrent]_vars

----------------------------------------------------------------------------
(* Properties *)

AuthorizedUsers == Range(AUTHORIZED_USER_IDS)

\* the token the request after a turn p has to carry
ThreadedToken(p) ==
    IF p = NoTurn THEN Empty
    ELSE IF p.last # Empty THEN p.last ELSE p.sent

\* C1: with turns run one after another, the token in the request of a turn
\* is the last non-empty token the previous turn received; it is empty for
\* the first turn, and it is the token the previous turn sent when that turn
\* received none.
C1_StateThreading ==
    \A h \in Handlers :
        pc[h] = "streaming" => req[h].conversation_state = ThreadedToken(prevTurn)

\* a turn whose predecessor sent token A and received no token sends A again
C1_Witness ==
    \E h \in Handlers :
        /\ pc[h] = "streaming"
        /\ prevTurn.sent = "A"
        /\ prevTurn.last = Empty
        /\ req[h].conversation_state = "A"

\* C2: at most one turn is in flight on the shared session at any time,
\* however the invocations for updates of different chats are interleaved:
\* no two invocations have a call of assistant.assist open together.
C2_OneTurnInFlight ==
    \A h1, h2 \in Handlers : (InFlight(h1) /\ InFlight(h2)) => h1 = h2

\* C3: under concurrent calls on the shared session, once all calls have
\* completed the stored token is the token delivered by the call whose last
\* response message was processed last; and while a call is still draining
\* its stream the stored token is the last token that call delivered, never
\* one that another call wrote over it.
C3_NoMixedToken ==
    /\ ((\A h \in Handlers : outcome[h] = "returned")
          /\ lastRecv \in Handlers
          /\ LastToken(stream[lastRecv]) # Empty)
            => assistant.conversation_state = LastToken(stream[lastRecv])
    /\ \A h \in Handlers :
        (pc[h] = "streaming" /\ LastToken(stream[h]) # Empty)
            => assistant.conversation_state = LastToken(stream[h])

\* C4: after a failed call the stored token is the one from before the call.
C4_FailureKeepsToken ==
    \A h \in Handlers :
        pc[h] = "failed" => assistant.conversation_state = pre[h]

\* C5: a completed turn returns the last non-empty display text of its
\* stream, and None (never the empty string) when no message carried text.
C5_Reply ==
    \A h \in Handlers :
        outcome[h] = "returned" =>
            /\ display_text[h] # Empty
            /\ display_text[h] = IF LastText(stream[h]) = Empty THEN None
                                 ELSE LastText(stream[h])

\* a completed turn whose text came first and was followed by a message
\* without text
C5_Witness ==
    \E h \in Handlers :
        /\ outcome[h] = "returned"
        /\ Len(stream[h]) = 2
        /\ stream[h][1].supplemental_display_text = "x"
        /\ stream[h][2].supplemental_display_text = Empty
        /\ display_text[h] = "x"

\* C6: when a turn run on its own returns, the stored token is the last
\* non-empty token of its stream, or the token from before the turn when the
\* stream carried none.
C6_Token ==
    \A h \in Handlers :
        outcome[h] = "returned" =>
            assistant.conversation_state =
                IF LastToken(stream[h]) # Empty THEN LastToken(stream[h]) ELSE pre[h]

\* a completed turn that replaced token A by B, B arriving before the
\* message with the text
C6_Witness ==
    \E h \in Handlers :
        /\ outcome[h] = "returned"
        /\ pre[h] = "A"
        /\ Len(stream[h]) = 2
        /\ stream[h][1].conversation_state = "B"
        /\ stream[h][2].conversation_state = Empty
        /\ stream[h][2].supplemental_display_text = "x"
        /\ assistant.conversation_state = "B"

\* C7: a message answered 'Unauthorized' never reaches the assistant: no
\* query, no request, and the stored token as it was.
C7_RejectionNeverAsks ==
    \A h \in Handlers :
        "Unauthorized" \in Range(replies[h]) =>
            /\ asks[h] = <<>>
            /\ req[h] = NoReq
            /\ assistant.conversation_state = pre[h]

\* C8: in a private chat an unauthorized sender gets exactly the reply
\* 'Unauthorized' and no query is made; for an authorized sender exactly one
\* query is made, with the whole message text.
C8_PrivateChat ==
    \A h \in Handlers :
        msg[h].chat_type = "private" =>
            IF msg[h].from_user \in AuthorizedUsers
            THEN asks[h] = <<msg[h].text>> /\ "Unauthorized" \notin Range(replies[h])
            ELSE replies[h] = <<"Unauthorized">> /\ asks[h] = <<>> /\ req[h] = NoReq

\* an authorized sender's private message that begins with the mention went
\* to the assistant whole
C8_Witness ==
    \E h \in Handlers :
        /\ msg[h].chat_type = "private"
        /\ msg[h].from_user = 1
        /\ msg[h].text = <<"@", "b", " ", "b">>
        /\ outcome[h] = "returned"
        /\ req[h].text_query = <<"@", "b", " ", "b">>

\* C9: in a private chat with an authorized sender, reply_text is called
\* with the returned text, and not at all when the assistant returned None.
C9_SilentRelay ==
    \A h \in Handlers :
        (msg[h].chat_type = "private" /\ outcome[h] = "returned") =>
            replies[h] = IF display_text[h] = None THEN <<>> ELSE <<display_text[h]>>

\* C10: a mention with a query, in a group that is not allowed and from a
\* sender who is not authorized, is answered 'Unauthorized', and the chat is
\* left exactly when no authorized user is in it; no other message makes the
\* bot leave.
C10_LeaveUnauthorizedGroup ==
    \A h \in Handlers :
        /\ (/\ pc[h] \in {"done", "failed", "crashed"}
            /\ msg[h].chat_type \notin {"private", "none"}
            /\ asks[h] # <<>>
            /\ GroupUnauthorized(msg[h]))
                => /\ replies[h] = <<"Unauthorized">>
                   /\ left[h] <=> (present[h] \cap AuthorizedUsers = {})
        /\ left[h] => (/\ msg[h].chat_id \notin Range(ALLOWED_CHAT_IDS)
                       /\ msg[h].from_user \notin AuthorizedUsers)

\* what is left of a text once its first word is stripped
Remainder(text) ==
    IF FirstSpace(text) = 0 THEN <<>>
    ELSE SubSeq(text, FirstSpace(text) + 1, Len(text))

\* C11: in a group chat a message that does not begin with the bot's mention,
\* or whose remainder after the mention is empty, causes nothing at all: no
\* query, no reply, no leave; any other message causes at most one query,
\* the remainder.
C11_MentionGate ==
    \A h \in Handlers :
        msg[h].chat_type \notin {"private", "none"} =>
            IF ~StartsWith(msg[h].text, Mention) \/ Remainder(msg[h].text) = <<>>
            THEN /\ asks[h] = <<>>
                 /\ sent[h] = <<>>
                 /\ replies[h] = <<>>
                 /\ user_idx[h] = 0
                 /\ ~left[h]
            ELSE asks[h] = <<Remainder(msg[h].text)>>

\* C12: a failed call hands its caller no display text, whatever text the
\* consumed messages carried; a text reaches the caller only as the result
\* of a stream drained to its end.
C12_NoPartialReply ==
    \A h \in Handlers :
        /\ pc[h] = "failed" => result[h] = Raised
        /\ result[h] \in DisplayTexts =>
              /\ outcome[h] = "returned"
              /\ result[h] = LastText(stream[h])

\* a call that failed after it had consumed a message with display text
C12_Witness ==
    \E h \in Handlers :
        /\ pc[h] = "failed"
        /\ outcome[h] = "DeadlineExceeded"
        /\ LastText(stream[h]) = "x"
        /\ display_text[h] = "x"

\* C13: with the deadline timer running, every call of assistant.assist that
\* is in flight eventually ends, by returning or by raising; the service
\* need not do anything for that.
C13_AskTerminates ==
    \A h \in Handlers : InFlight(h) ~> (outcome[h] # "none")

\* a call whose stream stalled after one message and ended with the deadline
C13_Witness ==
    \E h \in Handlers :
        /\ pc[h] = "failed"
        /\ outcome[h] = "DeadlineExceeded"
        /\ Len(stream[h]) = 1
        /\ result[h] = Raised

\* the request a turn has to send for query q when the session holds token cs
ExpectedRequest(cs, q) ==
    [language_code      |-> DEFAULT_LANG,
     conversation_state |-> IF cs \in Tokens THEN cs ELSE Empty,
     device_id          |-> DEVICE_ID,
     device_model_id    |-> DEVICE_MODEL_ID,
     text_query         |-> q]

\* C14: a turn writes exactly one request to the stream, carrying the
\* language code, the current token, the device identifiers and the query;
\* it writes nothing before the generator is pulled and nothing more
\* whatever the responses are, and no response is consumed before the
\* request was produced.
C14_SingleShotRequest ==
    \A h \in Handlers :
        /\ pc[h] \in {"idle", "open"} => sent[h] = <<>>
        /\ (pc[h] = "streaming" \/ outcome[h] = "returned") =>
              sent[h] = <<ExpectedRequest(pre[h], asks[h][1])>>
        /\ stream[h] # <<>> => Len(sent[h]) = 1
        /\ Len(sent[h]) <= 1

\* a completed turn that sent token A once and consumed three responses
C14_Witness ==
    \E h \in Handlers :
        /\ outcome[h] = "returned"
        /\ Len(stream[h]) = 3
        /\ Len(sent[h]) = 1
        /\ sent[h][1].conversation_state = "A"
        /\ sent[h][1].text_query = <<"b">>

\* C15: when assistant.assist raises, the handler ends there: the one query
\* of the message stays the only one, at most one request was written, no
\* reply is sent and the chat is not left; the worker is free for the next
\* message.
C15_FailedTurnDropped ==
    \A h \in Handlers :
        pc[h] = "failed" =>
            /\ Len(asks[h]) = 1
            /\ Len(sent[h]) <= 1
            /\ replies[h] = <<>>
            /\ ~left[h]
            /\ ENABLED Return(h)

\* a stranger's mention in a group that is not allowed, whose turn failed
\* after a message with display text
C15_Witness ==
    \E h \in Handlers :
        /\ pc[h] = "failed"
        /\ msg[h].chat_type = "group"
        /\ msg[h].chat_id = -11
        /\ msg[h].from_user = 3
        /\ display_text[h] = "x"
        /\ replies[h] = <<>>

\* C16: whatever turns have run, completed or failed, the session's language
\* code, device model id, device id and deadline are those it was built with.
C16_Frame ==
    /\ assistant.language_code = DEFAULT_LANG
    /\ assistant.device_model_id = DEVICE_MODEL_ID
    /\ assistant.device_id = DEVICE_ID
    /\ assistant.deadline = DEFAULT_GRPC_DEADLINE

\* a failed turn that had replaced token A by B
C16_Witness ==
    \E h \in Handlers :
        /\ pc[h] = "failed"
        /\ pre[h] = "A"
        /\ assistant.conversation_state = "B"
        /\ assistant.device_id = DEVICE_ID

\* C17: the stored token is never the empty byte string, and once the
\* service has delivered a non-empty token the stored token is one of the
\* tokens it delivered, however turns succeed and fail.
C17_TokenNeverCleared ==
    /\ assistant.conversation_state # Empty
    /\ issued # {} => assistant.conversation_state \in issued

\* a turn that failed after the service had delivered token B and then a
\* message without token, on a session that held A before: B is stored
C17_Witness ==
    \E h \in Handlers :
        /\ pc[h] = "failed"
        /\ pre[h] = "A"
        /\ Len(stream[h]) = 2
        /\ stream[h][1].conversation_state = "B"
        /\ stream[h][2].conversation_state = Empty
        /\ assistant.conversation_state = "B"

\* C18: to a group that is not allowed, answering a sender who is not
\* authorized, the handler passes nothing to reply_text but 'Unauthorized',
\* whatever the assistant returned.
C18_NoTextToStrangers ==
    \A h \in Handlers :
        (/\ msg[h].chat_type \notin {"private", "none"}
         /\ msg[h].chat_id \notin Range(ALLOWED_CHAT_IDS)
         /\ msg[h].from_user \notin AuthorizedUsers)
            => Range(replies[h]) \subseteq {"Unauthorized"}

\* a stranger's mention for which the assistant returned text x
C18_Witness ==
    \E h \in Handlers :
        /\ msg[h].chat_type = "supergroup"
        /\ msg[h].chat_id = -11
        /\ msg[h].from_user = 3
        /\ result[h] = "x"
        /\ replies[h] = <<"Unauthorized">>

\* C19: for one inbound message the handler calls reply_text at most once
\* and assistant.assist at most once, in every branch.
C19_AtMostOnce ==
    \A h \in Handlers :
        /\ Len(replies[h]) <= 1
        /\ Len(asks[h]) <= 1

\* a stranger's mention that was asked once and answered once
C19_Witness ==
    \E h \in Handlers :
        /\ msg[h].chat_type = "group"
        /\ msg[h].chat_id = -11
        /\ msg[h].from_user = 3
        /\ result[h] = "y"
        /\ Len(asks[h]) = 1
        /\ Len(replies[h]) = 1

====
